---- MODULE Spec2Model ----
(***************************************************************************)
(* Model of the two cluster-configuration scripts of ansible-setup/scripts: *)
(*   automate_cluster_configuration.py  (class ClusterInventoryGenerator)   *)
(*   generate_inventory.py              (module-level functions + main)     *)
(* One run of either script is a forward pass: discovery of the running     *)
(* Kafka and Zookeeper instances, rendering of hosts.ini and of the         *)
(* cp-ansible hosts.yml, DNS publication, tagging.  The cloud provider is   *)
(* the environment: it answers describe calls in any order, page by page,   *)
(* may fail any call, and its set of running instances may change while a   *)
(* run is in progress.                                                      *)
(***************************************************************************)
EXTENDS Integers, Sequences, FiniteSets, TLC

\* ---------------------------------------------------------------- bounds
NumInstances == 4   \* instances of the deployment group that exist in the account
MaxPages == 2       \* result pages the provider cuts one answer into, at most
MaxNameLen == 5     \* characters of a display name, where all names are tried

\* ------------------------------------------------- characters and strings
\* A Python str is modelled as the sequence of its characters.
Digits == <<"0", "1", "2", "3", "4", "5", "6", "7", "8", "9">>

IsDigit(c) == \E d \in 1..10 : Digits[d] = c

\* ord(c) for the characters an address is made of
Ord(c) ==
  IF c = "." THEN 46
  ELSE 47 + (CHOOSE d \in 1..10 : Digits[d] = c)

\* str(n) / f"{n}" for a non-negative integer
RECURSIVE DecStr(_)
DecStr(n) ==
  IF n < 10 THEN <<Digits[n + 1]>>
  ELSE DecStr(n \div 10) \o <<Digits[(n % 10) + 1]>>

\* Python's  a < b  on str: the first differing character decides, by code
\* point; a proper prefix is smaller.
RECURSIVE StrLess(_, _)
StrLess(a, b) ==
  IF b = <<>> THEN FALSE
  ELSE IF a = <<>> THEN TRUE
  ELSE IF Head(a) # Head(b) THEN Ord(Head(a)) < Ord(Head(b))
  ELSE StrLess(Tail(a), Tail(b))

Range(s) == {s[i] : i \in 1..Len(s)}

\* An optional value (None or a value) is a sequence of length 0 or 1.
None == <<>>
Some(x) == <<x>>

\* ------------------------------------------------------------- the cloud
KAFKA_SERVICE_TAG == "kafka"
ZOOKEEPER_SERVICE_TAG == "zookeeper"
Roles == {KAFKA_SERVICE_TAG, ZOOKEEPER_SERVICE_TAG}

\* The instances are numbered 1..NumInstances: the odd ones carry the tag
\* Service=kafka, the even ones Service=zookeeper.
AllIds == 1..NumInstances
ServiceOf(id) == IF id % 2 = 1 THEN KAFKA_SERVICE_TAG ELSE ZOOKEEPER_SERVICE_TAG
IdsOf(role) == {id \in AllIds : ServiceOf(id) = role}

\* The private address of an instance: Kafka instances live in 10.0.0.0/24,
\* Zookeeper instances in 10.0.1.0/24.  The k-th instance of a role has the
\* last octet 9, 10, 7, 12, 5, ...: pairwise distinct, and their decimal
\* strings order differently from the numbers ("10" < "7" < "9" as strings).
LastOctet(id) ==
  LET k == (id + 1) \div 2
  IN IF k % 2 = 1 THEN 10 - k ELSE 8 + k

Subnet(role) ==
  IF role = KAFKA_SERVICE_TAG
    THEN <<"1", "0", ".", "0", ".", "0", ".">>
    ELSE <<"1", "0", ".", "0", ".", "1", ".">>

PrivateIpAddress(id) == Subnet(ServiceOf(id)) \o DecStr(LastOctet(id))

\* --------------------------------------------------------- configuration
\* --subservice
Subservice == <<"o", "s">>

\* The values the Name tag of a Kafka instance is drawn from in a run: no
\* Name tag at all, or one of the display names  "a-b-k-os-2"  "k-os-x"
NameTags ==
  { None,
    Some(<<"a", "-", "b", "-", "k", "-", "o", "s", "-", "2">>),
    Some(<<"k", "-", "o", "s", "-", "x">>) }

\* ------------------------------------------------------- provider answers
\* What describe_instances tells about one instance: its PrivateIpAddress,
\* its InstanceId and its Name tag (None when the instance has none).
Describe(id, name) == [ip |-> PrivateIpAddress(id), id |-> id, name |-> name]

\* All orders in which the provider may list the instances of a set.
RECURSIVE Orders(_)
Orders(S) ==
  IF S = {} THEN {<<>>}
  ELSE UNION {{<<x>> \o rest : rest \in Orders(S \ {x})} : x \in S}

\* The ways the provider may cut an answer into result pages: one page, or
\* up to MaxPages pages none of which is empty.
RECURSIVE Paginations(_, _)
Paginations(insts, n) ==
  {<<insts>>} \cup
  IF n <= 1 THEN {}
  ELSE UNION {{<<SubSeq(insts, 1, cut)>> \o rest :
                 rest \in Paginations(SubSeq(insts, cut + 1, Len(insts)), n - 1)} :
              cut \in 1..(Len(insts) - 1)}

RECURSIVE Concat(_)
Concat(pages) ==
  IF pages = <<>> THEN <<>> ELSE Head(pages) \o Concat(Tail(pages))

\* --------------------------------------------- discovery (class version)
\* The list left in the order the provider gave it.
AsListed(insts) == insts

\* sorted(instances_details, key=lambda x: x['ip']): a stable sort on the
\* address strings, compared as Python compares str.
RECURSIVE InsertByIp(_, _)
InsertByIp(x, sorted) ==
  IF sorted = <<>> THEN <<x>>
  ELSE IF StrLess(x.ip, Head(sorted).ip) THEN <<x>> \o sorted
  ELSE <<Head(sorted)>> \o InsertByIp(x, Tail(sorted))

RECURSIVE SortedByIp(_)
SortedByIp(insts) ==
  IF insts = <<>> THEN <<>>
  ELSE InsertByIp(insts[Len(insts)], SortedByIp(SubSeq(insts, 1, Len(insts) - 1)))

\* The instances of the pages read before the failing request are kept.
KeepPagesRead(pages, failAt) ==
  IF failAt = 0 THEN SortedByIp(Concat(pages))
  ELSE SortedByIp(Concat(SubSeq(pages, 1, failAt - 1)))

\* ClusterInventoryGenerator._fetch_instances_details: every page of the
\* paginator is read; failAt = 0 when no request fails, and j when the
\* request for page j raises, in which case [] is returned.
FetchInstancesDetails(pages, failAt) ==
  IF failAt # 0 THEN <<>> ELSE SortedByIp(Concat(pages))

\* ------------------------------------------ discovery (function version)
\* generate_inventory.fetch_ec2_ips: one describe_instances call, whose
\* answer is the first result page; the three lists are filled in the
\* provider's order, and instance_names only by the instances that carry a
\* Name tag.  The lists are returned as they are, also after an exception.
RECURSIVE PresentNames(_)
PresentNames(insts) ==
  IF insts = <<>> THEN <<>>
  ELSE Head(insts).name \o PresentNames(Tail(insts))

FetchEc2Ips(pages, failAt) ==
  LET read == IF failAt # 0 THEN <<>> ELSE pages[1]
  IN [ips   |-> [i \in 1..Len(read) |-> read[i].ip],
      ids   |-> [i \in 1..Len(read) |-> read[i].id],
      names |-> PresentNames(read)]

\* ------------------------------------------------- rendering (class version)
Line(addr, text) == [addr |-> addr, text |-> text]

\* A section is written only for a role that has an instance.
DpInventoryOfNonEmpty(kafka, zookeeper) ==
  (IF kafka = <<>> THEN <<>>
   ELSE <<Line(<<>>, "[kafka]")>>
        \o [i \in 1..Len(kafka) |->
              Line(kafka[i].ip, " mount_disks=true mount_path=/mnt/data/kafka-data disks=1,2")])
  \o <<Line(<<>>, "")>>
  \o (IF zookeeper = <<>> THEN <<>>
      ELSE <<Line(<<>>, "[zookeeper]")>>
           \o [i \in 1..Len(zookeeper) |-> Line(zookeeper[i].ip, " mount_disks=false")])

\* generate_dp_ansible_inventory: the lines written to hosts.ini; a host
\* line is the address followed by its variables.
GenerateDpAnsibleInventory(kafka, zookeeper) ==
  <<Line(<<>>, "[kafka]")>>
  \o [i \in 1..Len(kafka) |->
        Line(kafka[i].ip, " mount_disks=true mount_path=/mnt/data/kafka-data disks=1,2")]
  \o <<Line(<<>>, ""), Line(<<>>, "[zookeeper]")>>
  \o [i \in 1..Len(zookeeper) |-> Line(zookeeper[i].ip, " mount_disks=false")]

\* The ids are counted from 0: i instead of i + 1.
EnumerateFromZero(instances) ==
  [a \in {instances[i].ip : i \in 1..Len(instances)} |->
     (CHOOSE i \in 1..Len(instances) :
        /\ instances[i].ip = a
        /\ \A j \in 1..Len(instances) : instances[j].ip = a => j <= i) - 1]

\* hosts[inst['ip']] = {<id field>: i + 1} for i, inst in enumerate(instances):
\* a dict keyed by address, a later assignment to a key replacing an earlier.
EnumerateHosts(instances) ==
  [a \in {instances[i].ip : i \in 1..Len(instances)} |->
     CHOOSE i \in 1..Len(instances) :
       /\ instances[i].ip = a
       /\ \A j \in 1..Len(instances) : instances[j].ip = a => j <= i]

\* generate_cp_ansible_hosts_file: the two host groups of the hosts file.
GenerateCpAnsibleHostsFile(kafka, zookeeper) ==
  [zookeeper |-> EnumerateHosts(zookeeper), kafka_broker |-> EnumerateHosts(kafka)]

\* --------------------------------------------------- NodeId (class version)
\* $ of a Python regular expression: the end of the string, or the place
\* before a newline that ends the string.
AtEnd(name, p) ==
  \/ p = Len(name) + 1
  \/ p = Len(name) /\ name[p] = "\n"

\* The places e where (\d+)$ can end when the digits start at d0.
DigitRuns(name, d0) ==
  {e \in d0..Len(name) :
     /\ \A k \in d0..e : IsDigit(name[k])
     /\ AtEnd(name, e + 1)}

\* {re.escape(subservice)}-(\d+)$ matched at place j
MatchesAt(sub, name, j) ==
  /\ j + Len(sub) <= Len(name)
  /\ SubSeq(name, j, j + Len(sub) - 1) = sub
  /\ name[j + Len(sub)] = "-"
  /\ DigitRuns(name, j + Len(sub) + 1) # {}

\* The separator is required: [-_]{subservice}-(\d+)$
SeparatedMatchStarts(sub, name) ==
  {i \in 1..Len(name) : name[i] \in {"-", "_"} /\ MatchesAt(sub, name, i + 1)}

\* The places where [-_]?{subservice}-(\d+)$ matches: the separator is
\* taken when it is there and the rest matches after it, and left out else.
MatchStarts(sub, name) ==
  {i \in 1..Len(name) :
     \/ name[i] \in {"-", "_"} /\ MatchesAt(sub, name, i + 1)
     \/ MatchesAt(sub, name, i)}

\* re.search(rf'[-_]?{re.escape(subservice)}-(\d+)$', name): None, or
\* group(1) of the leftmost match.
ReSearch(sub, name) ==
  LET starts == MatchStarts(sub, name)
  IN IF starts = {} THEN None
     ELSE LET i == CHOOSE x \in starts : \A y \in starts : x <= y
              j == IF name[i] \in {"-", "_"} /\ MatchesAt(sub, name, i + 1)
                     THEN i + 1 ELSE i
              d0 == j + Len(sub) + 1
              e == CHOOSE x \in DigitRuns(name, d0) : TRUE
          IN Some(SubSeq(name, d0, e))

\* list.index(x): the first place of x, counted from 0
Index(list, x) ==
  (CHOOSE i \in 1..Len(list) :
     list[i] = x /\ \A j \in 1..Len(list) : list[j] = x => i <= j) - 1

Fallback == <<"-", "f", "a", "l", "l", "b", "a", "c", "k", "-">>

\* tag_ec2_instances: node_id_value of one instance of self.kafka_instances
NodeIdValue(sub, kafka, inst) ==
  LET fallback == sub \o Fallback \o DecStr(Index(kafka, inst) + 1)
  IN IF inst.name # None /\ inst.name[1] # <<>>
       THEN LET match == ReSearch(sub, inst.name[1])
            IN IF match # None THEN sub \o <<"-">> \o match[1] ELSE fallback
       ELSE fallback

\* -------------------------------------------------- tagging (class version)
Enabled == <<"e", "n", "a", "b", "l", "e", "d">>

\* One create_tags request: the Resources and the Tags it carries.
TagRequest(resources, nodeId) ==
  [resources |-> resources,
   tags |-> [NodeId |-> nodeId, prometheus |-> Some(Enabled)]]

\* tag_ec2_instances: the create_tags requests in the order the two loops
\* make them; node_id_value is never empty, so every Kafka instance has one.
TagRequests(sub, kafka, zookeeper) ==
  [i \in 1..Len(kafka) |->
     TagRequest(<<kafka[i].id>>, Some(NodeIdValue(sub, kafka, kafka[i])))]
  \o [i \in 1..Len(zookeeper) |-> TagRequest(<<zookeeper[i].id>>, None)]

\* What a provider call may do: succeed, raise botocore's ClientError (the
\* provider answered with an error), or raise another exception (no answer:
\* connection failure, timeout, waiter failure).
Outcomes == {"ok", "ClientError", "OtherError"}

\* What the n calls of a loop may do, one after the other, when the except
\* clause around each call covers the exceptions of the kinds caught: the
\* loop goes on after an exception of such a kind, and any other exception
\* ends it, so that no later call is made.
RECURSIVE Results(_, _)
Results(n, caught) ==
  IF n = 0 THEN {<<>>}
  ELSE {<<"OtherError">>}
       \cup {<<r>> \o rest : r \in {"ok"} \cup caught, rest \in Results(n - 1, caught)}

\* The calls made for the requests when results lists what they do.
Performed(requests, results) ==
  [i \in 1..Len(results) |->
     [op |-> "create_tags", resources |-> requests[i].resources,
      tags |-> requests[i].tags, result |-> results[i]]]

\* Any failed call counts, caught or not.
AnyFailure(calls, caught) ==
  \E i \in 1..Len(calls) : calls[i].result # "ok"

\* Whether one of the calls raised an exception that ended the loop.
Raised(calls, caught) ==
  \E i \in 1..Len(calls) : calls[i].result \notin caught \cup {"ok"}

\* The tags of the cloud after the calls: a call that succeeds puts its tags
\* on each of its resources.
Merge(old, new) ==
  [NodeId |-> IF new.NodeId # None THEN new.NodeId ELSE old.NodeId,
   prometheus |-> IF new.prometheus # None THEN new.prometheus ELSE old.prometheus]

RECURSIVE Apply(_, _)
Apply(t, calls) ==
  IF calls = <<>> THEN t
  ELSE LET c == Head(calls)
           t1 == IF c.result = "ok"
                   THEN [id \in DOMAIN t |->
                           IF id \in Range(c.resources) THEN Merge(t[id], c.tags)
                           ELSE t[id]]
                   ELSE t
       IN Apply(t1, Tail(calls))

\* except ClientError around each create_tags call of tag_ec2_instances
TagErrorsCaught == {"ClientError"}

\* The exception is reported and the process ends normally.
StatusZero(raised) == 0

\* The exit status of run(): 1 when an exception reached its except clause,
\* else 0.
RunStatus(raised) == IF raised THEN 1 ELSE 0

\* ------------------------------------------- rendering (function version)
\* generate_ansible_inventory: the lines written to hosts.ini
GenerateAnsibleInventory(kafkaIps, zookeeperIps) ==
  <<Line(<<>>, "[kafka]")>>
  \o [i \in 1..Len(kafkaIps) |->
        Line(kafkaIps[i], " mount_disks=true mount_path=/mnt/data/kafka-data disks=1,2")]
  \o <<Line(<<>>, ""), Line(<<>>, "[zookeeper]")>>
  \o [i \in 1..Len(zookeeperIps) |-> Line(zookeeperIps[i], " mount_disks=false")]

\* hosts[ip] = {<id field>: i + 1} for i, ip in enumerate(ips)
EnumerateIps(ips) ==
  [a \in Range(ips) |->
     CHOOSE i \in 1..Len(ips) :
       ips[i] = a /\ \A j \in 1..Len(ips) : ips[j] = a => j <= i]

\* generate_inventory.generate_cp_ansible_hosts_file: the two host groups
GenerateCpHostsFile(kafkaIps, zookeeperIps) ==
  [zookeeper |-> EnumerateIps(zookeeperIps), kafka_broker |-> EnumerateIps(kafkaIps)]

\* ------------------------------------------------------- DNS change batch
\* f"{service}-{subservice}.moeinternal.com"
RecordName(service, sub) ==
  [service |-> service, subservice |-> sub, domain |-> ".moeinternal.com"]

Upsert(service, sub, ips) ==
  [Action |-> "UPSERT", Name |-> RecordName(service, sub), Type |-> "A",
   TTL |-> 60, ResourceRecords |-> ips]

\* Both records are put into the batch, whatever the lists hold.
Route53ChangesUnskipped(sub, kafka, zookeeper) ==
  <<Upsert("kafka", sub, [i \in 1..Len(kafka) |-> kafka[i].ip]),
    Upsert("zookeeper", sub, [i \in 1..Len(zookeeper) |-> zookeeper[i].ip])>>

\* ClusterInventoryGenerator.create_route53_dns_records: changes
Route53Changes(sub, kafka, zookeeper) ==
  (IF kafka # <<>>
     THEN <<Upsert("kafka", sub, [i \in 1..Len(kafka) |-> kafka[i].ip])>>
     ELSE <<>>)
  \o (IF zookeeper # <<>>
        THEN <<Upsert("zookeeper", sub, [i \in 1..Len(zookeeper) |-> zookeeper[i].ip])>>
        ELSE <<>>)

\* generate_inventory.create_route53_dns_records: changes
Route53ChangesOfIps(sub, kafkaIps, zookeeperIps) ==
  (IF kafkaIps # <<>> THEN <<Upsert("kafka", sub, kafkaIps)>> ELSE <<>>)
  \o (IF zookeeperIps # <<>> THEN <<Upsert("zookeeper", sub, zookeeperIps)>> ELSE <<>>)

\* Both versions: nothing is sent when changes is empty; else the batch is
\* submitted and, when that succeeds, the waiter polls for its propagation.
DnsCalls(changes, submit, wait) ==
  IF changes = <<>> THEN <<>>
  ELSE <<[op |-> "change_resource_record_sets", changes |-> changes, result |-> submit]>>
       \o (IF submit = "ok" THEN <<[op |-> "wait", result |-> wait]>> ELSE <<>>)

\* ------------------------------------------------ tagging (function version)
\* str.split('-')
RECURSIVE Split(_)
Split(str) ==
  IF \A i \in 1..Len(str) : str[i] # "-" THEN <<str>>
  ELSE LET i == CHOOSE x \in 1..Len(str) :
                  str[x] = "-" /\ \A y \in 1..(x - 1) : str[y] # "-"
       IN <<SubSeq(str, 1, i - 1)>> \o Split(SubSeq(str, i + 1, Len(str)))

\* tag_ec2_instances_with_nodeid, first loop: the create_tags requests for
\* the Kafka instance ids; instance i is tagged when instance_names has an
\* entry i whose split('-') has more than 4 parts.
RECURSIVE KafkaNodeIdRequests(_, _, _)
KafkaNodeIdRequests(ids, names, i) ==
  IF i > Len(ids) THEN <<>>
  ELSE (IF i <= Len(names) /\ Len(Split(names[i])) > 4
          THEN LET split_name == Split(names[i])
               IN <<TagRequest(<<ids[i]>>,
                               Some(split_name[4] \o <<"-">> \o split_name[5]))>>
          ELSE <<>>)
       \o KafkaNodeIdRequests(ids, names, i + 1)

\* tag_ec2_instances_with_nodeid, second part: one create_tags request for
\* all the Zookeeper instance ids that were fetched again, none when there
\* is no such id.
ZookeeperRequests(ids) ==
  IF ids = <<>> THEN <<>> ELSE <<TagRequest(ids, None)>>

\* ---------------------------------------------------------------- state
VARIABLES
  prog,                  \* which script runs: "automate" or "generate_inventory"
  pc,                    \* the statement of the run that executes next
  running,               \* cloud: the ids of the instances in state running
  asked,                 \* history: per role, the provider's answer to the discovery query
  kafka_instances,       \* self.kafka_instances
  zookeeper_instances,   \* self.zookeeper_instances
  kafka_ips,             \* generate_inventory main: kafka_ips
  kafka_instance_ids,    \* generate_inventory main: kafka_instance_ids
  kafka_instance_names,  \* generate_inventory main: kafka_instance_names
  zookeeper_ips,         \* generate_inventory main: zookeeper_ips
  hosts_ini,             \* file inventory/hosts.ini: None, or Some(its lines)
  hosts_yml,             \* file <subservice>-hosts.yml: None, or Some(its host groups)
  effects,               \* history: file writes and provider mutations, in order
  tags,                  \* cloud: the tags create_tags has put on each instance
  exit_status,           \* -1 while the process runs, then its exit status
  node_id_value          \* tag_ec2_instances: node_id_value, where the derivation
                         \* is applied on its own to a group and one of its instances

vars ==
  <<prog, pc, running, asked, kafka_instances, zookeeper_instances,
    kafka_ips, kafka_instance_ids, kafka_instance_names, zookeeper_ips,
    hosts_ini, hosts_yml, effects, tags, exit_status, node_id_value>>

classVars == <<kafka_instances, zookeeper_instances>>
scriptVars == <<kafka_ips, kafka_instance_ids, kafka_instance_names, zookeeper_ips>>
fileVars == <<hosts_ini, hosts_yml>>

NoTags == [NodeId |-> None, prometheus |-> None]

Init ==
  /\ prog \in {"automate", "generate_inventory"}
  /\ pc = "fetch_kafka"
  /\ running \in SUBSET AllIds
  /\ asked = [r \in Roles |-> None]
  /\ kafka_instances = <<>>
  /\ zookeeper_instances = <<>>
  /\ kafka_ips = <<>>
  /\ kafka_instance_ids = <<>>
  /\ kafka_instance_names = <<>>
  /\ zookeeper_ips = <<>>
  /\ hosts_ini = None
  /\ hosts_yml = None
  /\ effects = <<>>
  /\ tags = [id \in AllIds |-> NoTags]
  /\ exit_status = -1
  /\ node_id_value = None

\* ------------------------------------------------------ the environment
\* The statements of a run that query the instances of a role: the class
\* queries each role once, generate_inventory queries Zookeeper a second
\* time when it tags.
Queries(role) ==
  IF role = KAFKA_SERVICE_TAG THEN {"fetch_kafka"}
  ELSE IF prog = "automate" THEN {"fetch_zookeeper"}
  ELSE {"fetch_zookeeper", "tag"}

\* An instance starts or stops while the run is in progress.  A run sees the
\* cloud only through its queries, so a change is a step of the model right
\* before a query of the instance's role, whenever it happened since the
\* query before.
CloudChange ==
  /\ \E id \in AllIds :
       /\ pc \in Queries(ServiceOf(id))
       /\ running' = IF id \in running THEN running \ {id} ELSE running \cup {id}
  /\ UNCHANGED <<prog, pc, asked, classVars, scriptVars, fileVars, effects,
                 tags, exit_status, node_id_value>>

\* The Name tags of the instances of a role.  Those of Zookeeper instances
\* are only ever printed.
NameTagsOf(role) == IF role = KAFKA_SERVICE_TAG THEN NameTags ELSE {None}

\* The provider's possible answers to describe_instances with the filters
\* instance-state-name=running, tag:Service=role, tag:SubService=subservice:
\* the running instances of the role, in any order, cut into pages.
Answers(role) ==
  LET ids == running \cap IdsOf(role)
  IN UNION {Paginations([i \in 1..Len(order) |-> Describe(order[i], name[order[i]])],
                        MaxPages) :
              order \in Orders(ids), name \in [ids -> NameTagsOf(role)]}

\* What the history keeps of an answer: the instances it lists, whether it
\* lists them in another order than that of their addresses, and the request
\* that failed (0: none).
Asked(pages, failAt) ==
  LET all == Concat(pages)
  IN Some([ids |-> {all[i].id : i \in 1..Len(all)},
           shuffled |-> \E i, j \in 1..Len(all) : i < j /\ StrLess(all[j].ip, all[i].ip),
           failAt |-> failAt])

\* The process ends, and reports success whatever happened.
ExitZero(status) == pc' = "exited" /\ exit_status' = 0

\* The process ends with the given status.
Exit(status) == pc' = "exited" /\ exit_status' = status

\* The emptiness check left out.
CheckOmitted(kafka, zookeeper) == FALSE

\* ------------------------------------------- ClusterInventoryGenerator.run
\* fetch_all_cluster_details exits when neither role has an instance.
NoInstancesFound(kafka, zookeeper) == kafka = <<>> /\ zookeeper = <<>>

A_FetchKafka ==
  /\ prog = "automate" /\ pc = "fetch_kafka"
  /\ \E pages \in Answers(KAFKA_SERVICE_TAG) :
       \E failAt \in 0..Len(pages) :
         /\ kafka_instances' = FetchInstancesDetails(pages, failAt)
         /\ asked' = [asked EXCEPT ![KAFKA_SERVICE_TAG] = Asked(pages, failAt)]
  /\ pc' = "fetch_zookeeper"
  /\ UNCHANGED <<prog, running, zookeeper_instances, scriptVars, fileVars,
                 effects, tags, exit_status, node_id_value>>

A_FetchZookeeper ==
  /\ prog = "automate" /\ pc = "fetch_zookeeper"
  /\ \E pages \in Answers(ZOOKEEPER_SERVICE_TAG) :
       \E failAt \in 0..Len(pages) :
         /\ zookeeper_instances' = FetchInstancesDetails(pages, failAt)
         /\ asked' = [asked EXCEPT ![ZOOKEEPER_SERVICE_TAG] = Asked(pages, failAt)]
  /\ IF NoInstancesFound(kafka_instances, zookeeper_instances')
       THEN Exit(1)
       ELSE pc' = "generate_dp" /\ UNCHANGED exit_status
  /\ UNCHANGED <<prog, running, kafka_instances, scriptVars, fileVars,
                 effects, tags, node_id_value>>

\* generate_dp_ansible_inventory: makedirs or open may raise OSError, which
\* run() turns into exit status 1.
A_GenerateDp ==
  /\ prog = "automate" /\ pc = "generate_dp"
  /\ \/ /\ hosts_ini' = Some(GenerateDpAnsibleInventory(kafka_instances,
                                                        zookeeper_instances))
        /\ effects' = Append(effects, [op |-> "write", file |-> "hosts.ini"])
        /\ pc' = "generate_cp"
        /\ UNCHANGED exit_status
     \/ /\ Exit(RunStatus(TRUE))
        /\ UNCHANGED <<hosts_ini, effects>>
  /\ UNCHANGED <<prog, running, asked, classVars, scriptVars, hosts_yml, tags, node_id_value>>

A_GenerateCp ==
  /\ prog = "automate" /\ pc = "generate_cp"
  /\ \/ /\ hosts_yml' = Some(GenerateCpAnsibleHostsFile(kafka_instances,
                                                        zookeeper_instances))
        /\ effects' = Append(effects, [op |-> "write", file |-> "hosts.yml"])
        /\ pc' = "tag"
        /\ UNCHANGED exit_status
     \/ /\ Exit(RunStatus(TRUE))
        /\ UNCHANGED <<hosts_yml, effects>>
  /\ UNCHANGED <<prog, running, asked, classVars, scriptVars, hosts_ini, tags, node_id_value>>

\* run() goes from generate_cp_ansible_hosts_file straight to
\* tag_ec2_instances (the call of create_route53_dns_records is commented
\* out), and ends after it.
A_Tag ==
  /\ prog = "automate" /\ pc = "tag"
  /\ LET requests == TagRequests(Subservice, kafka_instances, zookeeper_instances)
     IN \E results \in Results(Len(requests), TagErrorsCaught) :
          LET calls == Performed(requests, results)
          IN /\ effects' = effects \o calls
             /\ tags' = Apply(tags, calls)
             /\ Exit(RunStatus(Raised(calls, TagErrorsCaught)))
  /\ UNCHANGED <<prog, running, asked, classVars, scriptVars, fileVars, node_id_value>>

\* ClusterInventoryGenerator.create_route53_dns_records, called on an object
\* whose two lists are filled: a failure of either provider call ends the
\* process with status 1.  run() does not call this method.
A_CreateRoute53DnsRecords ==
  /\ prog = "automate" /\ pc = "create_dns"
  /\ \E submit \in Outcomes, wait \in {"ok", "WaiterError"} :
       LET calls == DnsCalls(Route53Changes(Subservice, kafka_instances,
                                            zookeeper_instances), submit, wait)
       IN /\ effects' = effects \o calls
          /\ IF \E i \in 1..Len(calls) : calls[i].result # "ok"
               THEN Exit(1)
               ELSE pc' = "returned" /\ UNCHANGED exit_status
  /\ UNCHANGED <<prog, running, asked, classVars, scriptVars, fileVars, tags, node_id_value>>

\* ------------------------------------------------ generate_inventory main
\* An exception that nothing catches ends the interpreter with status 1.
Uncaught == 1

G_FetchKafka ==
  /\ prog = "generate_inventory" /\ pc = "fetch_kafka"
  /\ \E pages \in Answers(KAFKA_SERVICE_TAG) :
       \E failAt \in 0..1 :
         LET got == FetchEc2Ips(pages, failAt)
         IN /\ kafka_ips' = got.ips
            /\ kafka_instance_ids' = got.ids
            /\ kafka_instance_names' = got.names
            /\ asked' = [asked EXCEPT ![KAFKA_SERVICE_TAG] = Asked(pages, failAt)]
  /\ pc' = "fetch_zookeeper"
  /\ UNCHANGED <<prog, running, classVars, zookeeper_ips, fileVars, effects,
                 tags, exit_status, node_id_value>>

\* main exits when neither role has an address.
NoIpsFound(kafkaIps, zookeeperIps) == kafkaIps = <<>> /\ zookeeperIps = <<>>

G_FetchZookeeper ==
  /\ prog = "generate_inventory" /\ pc = "fetch_zookeeper"
  /\ \E pages \in Answers(ZOOKEEPER_SERVICE_TAG) :
       \E failAt \in 0..1 :
         /\ zookeeper_ips' = FetchEc2Ips(pages, failAt).ips
         /\ asked' = [asked EXCEPT ![ZOOKEEPER_SERVICE_TAG] = Asked(pages, failAt)]
  /\ IF NoIpsFound(kafka_ips, zookeeper_ips')
       THEN Exit(1)
       ELSE pc' = "generate_inventory" /\ UNCHANGED exit_status
  /\ UNCHANGED <<prog, running, classVars, kafka_ips, kafka_instance_ids,
                 kafka_instance_names, fileVars, effects, tags, node_id_value>>

G_GenerateInventory ==
  /\ prog = "generate_inventory" /\ pc = "generate_inventory"
  /\ \/ /\ hosts_ini' = Some(GenerateAnsibleInventory(kafka_ips, zookeeper_ips))
        /\ effects' = Append(effects, [op |-> "write", file |-> "hosts.ini"])
        /\ pc' = "generate_cp"
        /\ UNCHANGED exit_status
     \/ /\ Exit(Uncaught)
        /\ UNCHANGED <<hosts_ini, effects>>
  /\ UNCHANGED <<prog, running, asked, classVars, scriptVars, hosts_yml, tags, node_id_value>>

G_GenerateCp ==
  /\ prog = "generate_inventory" /\ pc = "generate_cp"
  /\ \/ /\ hosts_yml' = Some(GenerateCpHostsFile(kafka_ips, zookeeper_ips))
        /\ effects' = Append(effects, [op |-> "write", file |-> "hosts.yml"])
        /\ pc' = "create_dns"
        /\ UNCHANGED exit_status
     \/ /\ Exit(Uncaught)
        /\ UNCHANGED <<hosts_yml, effects>>
  /\ UNCHANGED <<prog, running, asked, classVars, scriptVars, hosts_ini, tags, node_id_value>>

\* create_route53_dns_records: exit(1) on ClientError; any other exception
\* of the two provider calls is not caught.
G_CreateDns ==
  /\ prog = "generate_inventory" /\ pc = "create_dns"
  /\ \E submit \in Outcomes, wait \in {"ok", "WaiterError"} :
       LET calls == DnsCalls(Route53ChangesOfIps(Subservice, kafka_ips,
                                                 zookeeper_ips), submit, wait)
       IN /\ effects' = effects \o calls
          /\ IF \E i \in 1..Len(calls) : calls[i].result = "ClientError"
               THEN Exit(1)
               ELSE IF \E i \in 1..Len(calls) : calls[i].result # "ok"
               THEN Exit(Uncaught)
               ELSE pc' = "tag" /\ UNCHANGED exit_status
  /\ UNCHANGED <<prog, running, asked, classVars, scriptVars, fileVars, tags, node_id_value>>

\* except ClientError around the create_tags calls of
\* tag_ec2_instances_with_nodeid
NodeIdTagErrorsCaught == {"ClientError"}

\* tag_ec2_instances_with_nodeid, then the end of main: the Kafka requests,
\* a second query of the Zookeeper instances, and the one request for them.
G_Tag ==
  /\ prog = "generate_inventory" /\ pc = "tag"
  /\ \E pages \in Answers(ZOOKEEPER_SERVICE_TAG) :
       \E failAt \in 0..1 :
         LET requests ==
               KafkaNodeIdRequests(kafka_instance_ids, kafka_instance_names, 1)
               \o ZookeeperRequests(FetchEc2Ips(pages, failAt).ids)
         IN \E results \in Results(Len(requests), NodeIdTagErrorsCaught) :
              LET calls == Performed(requests, results)
              IN /\ effects' = effects \o calls
                 /\ tags' = Apply(tags, calls)
                 /\ Exit(IF Raised(calls, NodeIdTagErrorsCaught) THEN Uncaught ELSE 0)
  /\ UNCHANGED <<prog, running, asked, classVars, scriptVars, fileVars, node_id_value>>

Next ==
  \/ CloudChange
  \/ A_FetchKafka
  \/ A_FetchZookeeper
  \/ A_GenerateDp
  \/ A_GenerateCp
  \/ A_Tag
  \/ G_FetchKafka
  \/ G_FetchZookeeper
  \/ G_GenerateInventory
  \/ G_GenerateCp
  \/ G_CreateDns
  \/ G_Tag

Spec == Init /\ [][Next]_vars

\* -------------------------------------- the DNS publication, called directly
\* The lists a discovery can leave: self.kafka_instances is sorted by
\* address, the lists of generate_inventory are in any order.
Groups(role) ==
  UNION {Orders({Describe(id, None) : id \in ids}) : ids \in SUBSET IdsOf(role)}

InitDns ==
  /\ prog \in {"automate", "generate_inventory"}
  /\ pc = "create_dns"
  /\ running = {}
  /\ asked = [r \in Roles |-> None]
  /\ \E k \in Groups(KAFKA_SERVICE_TAG), z \in Groups(ZOOKEEPER_SERVICE_TAG) :
       IF prog = "automate"
         THEN /\ kafka_instances = SortedByIp(k)
              /\ zookeeper_instances = SortedByIp(z)
              /\ kafka_ips = <<>> /\ zookeeper_ips = <<>>
         ELSE /\ kafka_ips = [i \in 1..Len(k) |-> k[i].ip]
              /\ zookeeper_ips = [i \in 1..Len(z) |-> z[i].ip]
              /\ kafka_instances = <<>> /\ zookeeper_instances = <<>>
  /\ kafka_instance_ids = <<>>
  /\ kafka_instance_names = <<>>
  /\ hosts_ini = None
  /\ hosts_yml = None
  /\ effects = <<>>
  /\ tags = [id \in AllIds |-> NoTags]
  /\ exit_status = -1
  /\ node_id_value = None

NextDns ==
  \/ A_CreateRoute53DnsRecords
  \/ G_CreateDns

SpecDns == InitDns /\ [][NextDns]_vars

\* ------------------------------------- the NodeId derivation, applied alone
Alphabet == {"-", "o", "s", "1", "\n"}

RECURSIVE Strings(_)
Strings(n) ==
  IF n = 0 THEN {<<>>}
  ELSE LET shorter == Strings(n - 1)
       IN shorter \cup {str \o <<c>> : str \in shorter, c \in Alphabet}

\* self.kafka_instances with n instances, of which the one at place i has the
\* Name tag name and the others none.
GroupWith(n, i, name) ==
  LET ids == {id \in IdsOf(KAFKA_SERVICE_TAG) : (id + 1) \div 2 <= n}
      group == SortedByIp(CHOOSE order \in Orders({Describe(id, None) : id \in ids}) : TRUE)
  IN [j \in 1..n |-> IF j = i THEN [group[j] EXCEPT !.name = name] ELSE group[j]]

InitNodeId ==
  /\ prog = "automate"
  /\ pc = "node_id"
  /\ running = {}
  /\ asked = [r \in Roles |-> None]
  /\ \E n \in 1..Cardinality(IdsOf(KAFKA_SERVICE_TAG)) :
       \E i \in 1..n :
         \E name \in {None} \cup {Some(str) : str \in Strings(MaxNameLen)} :
           kafka_instances = GroupWith(n, i, name)
  /\ zookeeper_instances = <<>>
  /\ kafka_ips = <<>>
  /\ kafka_instance_ids = <<>>
  /\ kafka_instance_names = <<>>
  /\ zookeeper_ips = <<>>
  /\ hosts_ini = None
  /\ hosts_yml = None
  /\ effects = <<>>
  /\ tags = [id \in AllIds |-> NoTags]
  /\ exit_status = -1
  /\ node_id_value = None

\* The body of the Kafka loop of tag_ec2_instances up to the create_tags
\* call, for each instance of the group.
A_NodeIdValues ==
  /\ pc = "node_id"
  /\ node_id_value' =
       Some([j \in 1..Len(kafka_instances) |->
               NodeIdValue(Subservice, kafka_instances, kafka_instances[j])])
  /\ pc' = "returned"
  /\ UNCHANGED <<prog, running, asked, classVars, scriptVars, fileVars, effects,
                 tags, exit_status>>

NextNodeId == A_NodeIdValues

SpecNodeId == InitNodeId /\ [][NextNodeId]_vars

\* ================================================================ properties
\* ------------------------------------------------ what a run lets one observe
Ips(instances) == [i \in 1..Len(instances) |-> instances[i].ip]

\* The instances the run holds for a role after discovery, as addresses.
DiscoveredIps(role) ==
  IF prog = "automate"
    THEN Ips(IF role = KAFKA_SERVICE_TAG THEN kafka_instances ELSE zookeeper_instances)
    ELSE IF role = KAFKA_SERVICE_TAG THEN kafka_ips ELSE zookeeper_ips

\* Whether the discovery query for the role was made and failed.
Failed(role) == asked[role] # None /\ asked[role][1].failAt # 0

\* The host group of a role in the cp-ansible hosts file: address |-> id.
HostGroup(role) ==
  IF role = KAFKA_SERVICE_TAG THEN hosts_yml[1].kafka_broker ELSE hosts_yml[1].zookeeper

\* The addresses of a role's host lines in hosts.ini, in the file's order.
RenderedIps(role) ==
  LET lines == hosts_ini[1]
      h == CHOOSE i \in 1..Len(lines) : lines[i].text = "[zookeeper]"
      hostLines == IF role = KAFKA_SERVICE_TAG
                     THEN SubSeq(lines, 2, h - 2)
                     ELSE SubSeq(lines, h + 1, Len(lines))
  IN [i \in 1..Len(hostLines) |-> hostLines[i].addr]

IsCreateTags(e) == e.op = "create_tags"
CreateTagsCalls == SelectSeq(effects, IsCreateTags)

\* The addresses of the instances of a role named in create_tags calls, in
\* the order of the calls.
TaggedIps(role) ==
  LET all == Concat([i \in 1..Len(CreateTagsCalls) |-> CreateTagsCalls[i].resources])
      ofRole(id) == ServiceOf(id) = role
      mine == SelectSeq(all, ofRole)
  IN [i \in 1..Len(mine) |-> PrivateIpAddress(mine[i])]

Ascending(ips) ==
  \A i, j \in 1..Len(ips) : i < j => StrLess(ips[i], ips[j])

Ip9 == <<"1", "0", ".", "0", ".", "0", ".", "9">>
Ip10 == <<"1", "0", ".", "0", ".", "0", ".", "1", "0">>

\* C1: in ClusterInventoryGenerator the instances of a role, whatever order
\* the provider lists them in, are held sorted ascending by the lexical
\* order of their address strings (so 10.0.0.10 stands before 10.0.0.9), a
\* discovery that does not fail holds exactly the instances listed, and the
\* hosts file gives the address at place k the id k: the ids are 1..N.
C1_LexicalOrderAndIds ==
  prog = "automate" =>
    \A role \in Roles :
      LET ips == DiscoveredIps(role)
      IN /\ Ascending(ips)
         /\ \A i, j \in 1..Len(ips) : (ips[i] = Ip10 /\ ips[j] = Ip9) => i < j
         /\ (asked[role] # None /\ ~Failed(role)) =>
              /\ Len(ips) = Cardinality(asked[role][1].ids)
              /\ Range(ips) = {PrivateIpAddress(id) : id \in asked[role][1].ids}
         /\ hosts_yml # None =>
              /\ DOMAIN HostGroup(role) = Range(ips)
              /\ \A k \in 1..Len(ips) : HostGroup(role)[ips[k]] = k
              /\ {HostGroup(role)[a] : a \in Range(ips)} = 1..Len(ips)

\* C1 witness: the provider listed the Kafka instances in another order than
\* that of their addresses, and the hosts file has 10.0.0.10 as broker 1 and
\* 10.0.0.9 as broker 2.
C1_Witness ==
  /\ prog = "automate" /\ hosts_yml # None
  /\ asked[KAFKA_SERVICE_TAG][1].shuffled
  /\ Ips(kafka_instances) = <<Ip10, Ip9>>
  /\ HostGroup(KAFKA_SERVICE_TAG)[Ip10] = 1
  /\ HostGroup(KAFKA_SERVICE_TAG)[Ip9] = 2

\* The ids ClusterInventoryGenerator gives the addresses of a set of instances.
ClassOrdinals(ids) ==
  LET listed == CHOOSE order \in Orders({Describe(id, None) : id \in ids}) : TRUE
  IN EnumerateHosts(FetchInstancesDetails(<<listed>>, 0))

\* C2: for a set of running instances that generate_inventory.py has read
\* in full, the id its hosts file gives each address is the id
\* ClusterInventoryGenerator gives that address.
C2_SameOrdinalsOnBothPaths ==
  (prog = "generate_inventory" /\ hosts_yml # None) =>
    \A role \in Roles :
      (~Failed(role) /\ Len(DiscoveredIps(role)) = Cardinality(asked[role][1].ids)) =>
        HostGroup(role) = ClassOrdinals(asked[role][1].ids)

\* C3: in a run that ends with status 0, for each role the instances named
\* in create_tags calls are the instances written to hosts.ini, in the same
\* order.
C3_TaggingUsesRenderedGroups ==
  (pc = "exited" /\ exit_status = 0) =>
    \A role \in Roles : TaggedIps(role) = RenderedIps(role)

\* A name without the one newline that may end it.
Chomp(name) ==
  IF name # <<>> /\ name[Len(name)] = "\n"
    THEN SubSeq(name, 1, Len(name) - 1) ELSE name

\* The digit strings d for which str ends with  lead d : lead, then one or
\* more digits, then the end of str.
TrailingNumbers(lead, str) ==
  {d \in {SubSeq(str, k, Len(str)) : k \in 1..Len(str)} :
     /\ \A k \in 1..Len(d) : IsDigit(d[k])
     /\ Len(str) >= Len(lead) + Len(d)
     /\ SubSeq(str, Len(str) - Len(d) - Len(lead) + 1, Len(str) - Len(d)) = lead}

\* Each node_id_value is <subservice>-<digits> when numbers(name) has the
\* digits, and <subservice>-fallback-<place in the group> when it is empty.
NodeIdsFollow(numbers(_)) ==
  \A j \in 1..Len(kafka_instances) :
    LET name == kafka_instances[j].name
        nums == IF name = None THEN {} ELSE numbers(name[1])
    IN IF nums # {}
         THEN \E d \in nums : node_id_value[1][j] = Subservice \o <<"-">> \o d
         ELSE node_id_value[1][j] = Subservice \o Fallback \o DecStr(j)

EndsWithSubserviceNumber(name) ==
  TrailingNumbers(Subservice \o <<"-">>, Chomp(name))

\* C4 (as amended): the NodeId of a Kafka instance is <subservice>-<digits>
\* if and only if its display name is present and, one final newline aside,
\* ends with <subservice>-<digits>, whatever stands before the subservice;
\* in every other case it is <subservice>-fallback-<ordinal>, the ordinal
\* being the instance's 1-based place in the address-sorted Kafka group.
C4_NodeIdOfName ==
  node_id_value # None => NodeIdsFollow(EndsWithSubserviceNumber)

\* C4 witness: the name "oos-1", which has no separator before the
\* subservice, at place 2 of 2 gets the NodeId "os-1".
C4_Witness ==
  /\ node_id_value # None
  /\ Len(kafka_instances) = 2
  /\ kafka_instances[2].name = Some(<<"o", "o", "s", "-", "1">>)
  /\ node_id_value[1] = << <<"o", "s", "-", "f", "a", "l", "l", "b", "a", "c", "k", "-", "1">>,
                          <<"o", "s", "-", "1">> >>

EndsWithHyphenSubserviceNumber(name) ==
  TrailingNumbers(<<"-">> \o Subservice \o <<"-">>, name)

\* C4 (as stated): the NodeId is <subservice>-<digits> if and only if the
\* display name ends with a hyphen, the subservice, a hyphen and digits.
C4_HyphenSuffixOnly ==
  node_id_value # None => NodeIdsFollow(EndsWithHyphenSubserviceNumber)

\* C5: when discovery has yielded no instance for either role, the process
\* has exited with a non-zero status, and no file is written, no provider
\* call that changes anything is made and no instance is tagged.
C5_NothingFoundNothingDone ==
  (/\ asked[KAFKA_SERVICE_TAG] # None /\ asked[ZOOKEEPER_SERVICE_TAG] # None
   /\ \A role \in Roles : DiscoveredIps(role) = <<>>) =>
    /\ pc = "exited" /\ exit_status > 0
    /\ hosts_ini = None /\ hosts_yml = None
    /\ effects = <<>>
    /\ \A id \in AllIds : tags[id] = NoTags

\* C5 witness: generate_inventory.py found nothing (instances run, but the
\* Kafka query failed and no Zookeeper instance runs) and has exited.
C5_Witness ==
  /\ prog = "generate_inventory"
  /\ Failed(KAFKA_SERVICE_TAG) /\ asked[KAFKA_SERVICE_TAG][1].ids # {}
  /\ asked[ZOOKEEPER_SERVICE_TAG] # None
  /\ \A role \in Roles : DiscoveredIps(role) = <<>>
  /\ pc = "exited" /\ exit_status = 1

C6_Step ==
  /\ \A role \in Roles : Failed(role)' => DiscoveredIps(role)' = <<>>
  /\ (pc = "fetch_kafka" /\ pc' # pc) => pc' = "fetch_zookeeper"
  /\ (pc = "fetch_zookeeper" /\ pc' # pc) =>
       (pc' = "exited" <=> \A role \in Roles : DiscoveredIps(role)' = <<>>)

\* C6: a discovery query that fails, at its first request or at a later
\* page, leaves the role with the empty list, and the discovery stage ends
\* the process only when both roles are empty: with an instance of the other
\* role the run goes on to rendering.
C6_FailedDiscoveryIsEmpty == [][C6_Step]_vars

\* C6 witness: the Kafka query failed at its second page, after a page with
\* an instance was read; the Kafka list is empty and hosts.ini is written
\* with the Zookeeper instances.
C6_Witness ==
  /\ prog = "automate"
  /\ asked[KAFKA_SERVICE_TAG] # None /\ asked[KAFKA_SERVICE_TAG][1].failAt = 2
  /\ kafka_instances = <<>>
  /\ zookeeper_instances # <<>>
  /\ hosts_ini # None
  /\ RenderedIps(KAFKA_SERVICE_TAG) = <<>>
  /\ RenderedIps(ZOOKEEPER_SERVICE_TAG) = Ips(zookeeper_instances)

\* C7: in a run that ends with status 0, every instance written to the
\* inventories has a create_tags call of its own, and is tagged unless that
\* call failed.
C7_EveryInstanceHasItsCall ==
  (pc = "exited" /\ exit_status = 0) =>
    \A role \in Roles :
      \A id \in IdsOf(role) :
        PrivateIpAddress(id) \in Range(RenderedIps(role)) =>
          /\ \E i \in 1..Len(CreateTagsCalls) : CreateTagsCalls[i].resources = <<id>>
          /\ \/ tags[id].prometheus = Some(Enabled)
             \/ \E i \in 1..Len(CreateTagsCalls) :
                  /\ CreateTagsCalls[i].resources = <<id>>
                  /\ CreateTagsCalls[i].result # "ok"

\* C8: a run that has ended after writing both files, with no failed DNS
\* call and with every create_tags call either succeeding or failing with a
\* provider error, has ended with status 0.
C8_TaggingErrorsKeepStatusZero ==
  (/\ pc = "exited" /\ hosts_ini # None /\ hosts_yml # None
   /\ \A i \in 1..Len(effects) :
        /\ effects[i].op \in {"change_resource_record_sets", "wait"} =>
             effects[i].result = "ok"
        /\ effects[i].op = "create_tags" =>
             effects[i].result \in {"ok", "ClientError"}) =>
    exit_status = 0

\* C8 witness: ClusterInventoryGenerator.run has ended with status 0 after a
\* create_tags call that failed and one that succeeded.
C8_Witness ==
  /\ prog = "automate" /\ pc = "exited" /\ exit_status = 0
  /\ \E i, j \in 1..Len(CreateTagsCalls) :
       /\ CreateTagsCalls[i].result = "ClientError"
       /\ CreateTagsCalls[j].result = "ok"

\* C9: a run that ends with status 0 has submitted a DNS change batch with
\* an UPSERT for every role that has an instance, after both file writes and
\* before every create_tags call.
C9_DnsBetweenRenderingAndTagging ==
  (pc = "exited" /\ exit_status = 0) =>
    \E d \in 1..Len(effects) :
      /\ effects[d].op = "change_resource_record_sets"
      /\ \A role \in Roles :
           DiscoveredIps(role) # <<>> =>
             \E c \in 1..Len(effects[d].changes) :
               /\ effects[d].changes[c].Name = RecordName(role, Subservice)
               /\ effects[d].changes[c].Action = "UPSERT"
      /\ \A w \in 1..Len(effects) : effects[w].op = "write" => w < d
      /\ \A t \in 1..Len(effects) : effects[t].op = "create_tags" => d < t

IsChangeBatch(e) == e.op = "change_resource_record_sets"
ChangeBatches == SelectSeq(effects, IsChangeBatch)

\* C10: create_route53_dns_records sends nothing when both roles are empty;
\* else it submits one batch, which has no entry for an empty role and, for a
\* role with instances, exactly one UPSERT of an A record with TTL 60 whose
\* values are the role's addresses, each once; the batch has nothing else.
C10_DnsBatch ==
  pc # "create_dns" =>
    IF \A role \in Roles : DiscoveredIps(role) = <<>>
      THEN effects = <<>>
      ELSE /\ Len(ChangeBatches) = 1
           /\ LET changes == ChangeBatches[1].changes
              IN /\ \A c \in 1..Len(changes) :
                      \E role \in Roles : changes[c].Name = RecordName(role, Subservice)
                 /\ \A role \in Roles :
                      LET ips == DiscoveredIps(role)
                          mine == {c \in 1..Len(changes) :
                                     changes[c].Name = RecordName(role, Subservice)}
                      IN IF ips = <<>> THEN mine = {}
                         ELSE /\ Cardinality(mine) = 1
                              /\ \A c \in mine :
                                   /\ changes[c].Action = "UPSERT"
                                   /\ changes[c].Type = "A"
                                   /\ changes[c].TTL = 60
                                   /\ Range(changes[c].ResourceRecords) = Range(ips)
                                   /\ Len(changes[c].ResourceRecords) =
                                        Cardinality(Range(ips))

\* C10 witness: called with no Kafka instance and two Zookeeper instances,
\* the method has submitted a batch of one change.
C10_Witness ==
  /\ pc # "create_dns"
  /\ DiscoveredIps(KAFKA_SERVICE_TAG) = <<>>
  /\ Len(DiscoveredIps(ZOOKEEPER_SERVICE_TAG)) = 2
  /\ Len(ChangeBatches) = 1
  /\ Len(ChangeBatches[1].changes) = 1

IsDnsCall(e) == e.op \in {"change_resource_record_sets", "wait"}
DnsFailures == {i \in 1..Len(effects) : IsDnsCall(effects[i]) /\ effects[i].result # "ok"}

\* C11: when the provider rejects the DNS change, or the submission or the
\* wait for its propagation fails in any other way, the process has exited
\* with a non-zero status, the failed call is the last thing it did, and no
\* create_tags call was made; in both versions of create_route53_dns_records.
C11_DnsFailureIsFatal ==
  DnsFailures # {} =>
    /\ pc = "exited" /\ exit_status > 0
    /\ \A i \in DnsFailures : i = Len(effects)
    /\ CreateTagsCalls = <<>>

\* C11 witness: in generate_inventory.py the change was accepted and the
\* waiter gave up; the process has exited with status 1.
C11_Witness ==
  /\ prog = "generate_inventory"
  /\ Len(effects) = 2
  /\ effects[1].op = "change_resource_record_sets" /\ effects[1].result = "ok"
  /\ effects[2].op = "wait" /\ effects[2].result = "WaiterError"
  /\ pc = "exited" /\ exit_status = 1

\* The instances of a role among those the run discovered.
DiscoveredIds(role) ==
  {id \in IdsOf(role) : PrivateIpAddress(id) \in Range(DiscoveredIps(role))}

NoCallFailed ==
  /\ \A role \in Roles : ~Failed(role)
  /\ \A i \in 1..Len(effects) :
       (IsDnsCall(effects[i]) \/ IsCreateTags(effects[i])) => effects[i].result = "ok"

\* C12: after a run that ended with status 0 and in which no discovery
\* query, DNS call or create_tags call failed, every discovered Kafka
\* instance has a NodeId tag and the tag prometheus=enabled, and no Zookeeper
\* instance has a NodeId tag.
C12_EveryKafkaInstanceTagged ==
  (pc = "exited" /\ exit_status = 0 /\ NoCallFailed) =>
    /\ \A id \in DiscoveredIds(KAFKA_SERVICE_TAG) :
         /\ tags[id].NodeId # None
         /\ tags[id].prometheus = Some(Enabled)
    /\ \A id \in IdsOf(ZOOKEEPER_SERVICE_TAG) : tags[id].NodeId = None

\* hosts.ini is: the line [kafka], one Kafka line per discovered Kafka
\* instance in the order of the group, the lines of between, the line
\* [zookeeper], one Zookeeper line per discovered Zookeeper instance in the
\* order of the group, and nothing else.
HostsIniIs(between) ==
  LET lines == hosts_ini[1]
      k == DiscoveredIps(KAFKA_SERVICE_TAG)
      z == DiscoveredIps(ZOOKEEPER_SERVICE_TAG)
      h == 1 + Len(k) + Len(between) + 1
  IN /\ Len(lines) = h + Len(z)
     /\ lines[1] = [addr |-> <<>>, text |-> "[kafka]"]
     /\ \A i \in 1..Len(k) :
          lines[1 + i] =
            [addr |-> k[i],
             text |-> " mount_disks=true mount_path=/mnt/data/kafka-data disks=1,2"]
     /\ \A i \in 1..Len(between) : lines[1 + Len(k) + i] = between[i]
     /\ lines[h] = [addr |-> <<>>, text |-> "[zookeeper]"]
     /\ \A i \in 1..Len(z) :
          lines[h + i] = [addr |-> z[i], text |-> " mount_disks=false"]

\* C13 (as amended): hosts.ini always has the [kafka] header and after it
\* the [zookeeper] header, also when a role is empty, with exactly one line
\* per discovered instance of the role under each, in the order of the
\* group, and one empty line before the [zookeeper] header; no other line.
C13_HostsIniShape ==
  hosts_ini # None => HostsIniIs(<<[addr |-> <<>>, text |-> ""]>>)

\* C13 witness: generate_inventory.py has written hosts.ini for no Kafka
\* instance and two Zookeeper instances: five lines, both headers.
C13_Witness ==
  /\ prog = "generate_inventory" /\ hosts_ini # None
  /\ kafka_ips = <<>> /\ Len(zookeeper_ips) = 2
  /\ Len(hosts_ini[1]) = 5
  /\ hosts_ini[1][1].text = "[kafka]" /\ hosts_ini[1][3].text = "[zookeeper]"
  /\ hosts_ini[1][5] = [addr |-> zookeeper_ips[2], text |-> " mount_disks=false"]

\* C13 (as stated): the same, with no line at all besides the two headers
\* and the instances' lines.
C13_NoOtherLine ==
  hosts_ini # None => HostsIniIs(<<>>)

\* C14: a discovery query that does not fail yields, for its role, exactly
\* the instances of all the result pages of the provider's answer.
C14_AllPagesRead ==
  \A role \in Roles :
    (asked[role] # None /\ ~Failed(role)) =>
      /\ Range(DiscoveredIps(role)) = {PrivateIpAddress(id) : id \in asked[role][1].ids}
      /\ Len(DiscoveredIps(role)) = Cardinality(asked[role][1].ids)

IsWriteOf(e, file) == e.op = "write" /\ e.file = file

\* C15: a DNS call or create_tags call is made only after both hosts.ini
\* and hosts.yml were written; the run reaches a later stage only with the
\* files of the earlier stages written; and a process that has ended with a
\* file unwritten has exited with a non-zero status and made no DNS or
\* create_tags call.
C15_FilesBeforeProviderChanges ==
  /\ \A i \in 1..Len(effects) :
       (IsDnsCall(effects[i]) \/ IsCreateTags(effects[i])) =>
         /\ \E w \in 1..(i - 1) : IsWriteOf(effects[w], "hosts.ini")
         /\ \E w \in 1..(i - 1) : IsWriteOf(effects[w], "hosts.yml")
         /\ hosts_ini # None /\ hosts_yml # None
  /\ pc = "generate_cp" => hosts_ini # None
  /\ pc \in {"create_dns", "tag"} => (hosts_ini # None /\ hosts_yml # None)
  /\ (pc = "exited" /\ (hosts_ini = None \/ hosts_yml = None)) =>
       /\ exit_status > 0
       /\ \A i \in 1..Len(effects) :
            ~IsDnsCall(effects[i]) /\ ~IsCreateTags(effects[i])

\* C15 witness: ClusterInventoryGenerator.run wrote hosts.ini, failed to
\* write hosts.yml and exited with status 1, having done nothing else.
C15_Witness ==
  /\ prog = "automate" /\ pc = "exited" /\ exit_status = 1
  /\ hosts_ini # None /\ hosts_yml = None
  /\ effects = <<[op |-> "write", file |-> "hosts.ini"]>>

FallbackNodeId(k) == Some(Subservice \o Fallback \o DecStr(k))

\* C16: in a run of ClusterInventoryGenerator, a Kafka instance for which a
\* create_tags call carries the NodeId <subservice>-fallback-<k>, and one
\* that has this NodeId tag, has broker_id k for its address in the hosts
\* file of the run.
C16_FallbackOrdinalIsBrokerId ==
  prog = "automate" =>
    \A k \in 1..NumInstances :
      /\ \A i \in 1..Len(CreateTagsCalls) :
           CreateTagsCalls[i].tags.NodeId = FallbackNodeId(k) =>
             \A r \in 1..Len(CreateTagsCalls[i].resources) :
               HostGroup(KAFKA_SERVICE_TAG)[PrivateIpAddress(CreateTagsCalls[i].resources[r])] = k
      /\ \A id \in AllIds :
           tags[id].NodeId = FallbackNodeId(k) =>
             HostGroup(KAFKA_SERVICE_TAG)[PrivateIpAddress(id)] = k

\* C16 witness: the instance 10.0.0.9, second of two by address and without
\* a Name tag, is tagged os-fallback-2 and is broker 2 in the hosts file.
C16_Witness ==
  /\ prog = "automate" /\ pc = "exited"
  /\ Ips(kafka_instances) = <<Ip10, Ip9>>
  /\ kafka_instances[2].name = None
  /\ tags[kafka_instances[2].id].NodeId = FallbackNodeId(2)
  /\ HostGroup(KAFKA_SERVICE_TAG)[Ip9] = 2

\* ----------------- generate_inventory.py: the Kafka names, from query to tag
\* The Name tags an answer is tried with: those of a run, and a second
\* display name of five parts,  "a-b-k-os-3"
NameTagsTried ==
  NameTags \cup {Some(<<"a", "-", "b", "-", "k", "-", "o", "s", "-", "3">>)}

\* The history keeps the whole answer to the Kafka query: one result page,
\* the instances in any order, each with any of the Name tags.
InitNames ==
  /\ prog = "generate_inventory"
  /\ pc = "fetch_kafka"
  /\ running \in SUBSET IdsOf(KAFKA_SERVICE_TAG)
  /\ \E order \in Orders(running) :
       \E name \in [running -> NameTagsTried] :
         asked = [r \in Roles |->
                    IF r = KAFKA_SERVICE_TAG
                      THEN Some([i \in 1..Len(order) |-> Describe(order[i], name[order[i]])])
                      ELSE None]
  /\ kafka_instances = <<>>
  /\ zookeeper_instances = <<>>
  /\ kafka_ips = <<>>
  /\ kafka_instance_ids = <<>>
  /\ kafka_instance_names = <<>>
  /\ zookeeper_ips = <<>>
  /\ hosts_ini = None
  /\ hosts_yml = None
  /\ effects = <<>>
  /\ tags = [id \in AllIds |-> NoTags]
  /\ exit_status = -1
  /\ node_id_value = None

\* kafka_ips, kafka_instance_ids, kafka_instance_names = fetch_ec2_ips(...)
N_FetchEc2Ips ==
  /\ pc = "fetch_kafka"
  /\ LET got == FetchEc2Ips(<<asked[KAFKA_SERVICE_TAG][1]>>, 0)
     IN /\ kafka_ips' = got.ips
        /\ kafka_instance_ids' = got.ids
        /\ kafka_instance_names' = got.names
  /\ pc' = "tag"
  /\ UNCHANGED <<prog, running, asked, classVars, zookeeper_ips, fileVars, effects,
                 tags, exit_status, node_id_value>>

\* The Kafka loop of tag_ec2_instances_with_nodeid, every call succeeding.
N_TagKafka ==
  /\ pc = "tag"
  /\ LET requests == KafkaNodeIdRequests(kafka_instance_ids, kafka_instance_names, 1)
         calls == Performed(requests, [i \in 1..Len(requests) |-> "ok"])
     IN /\ effects' = effects \o calls
        /\ tags' = Apply(tags, calls)
  /\ pc' = "returned"
  /\ UNCHANGED <<prog, running, asked, classVars, scriptVars, fileVars,
                 exit_status, node_id_value>>

NextNames ==
  \/ N_FetchEc2Ips
  \/ N_TagKafka

SpecNames == InitNames /\ [][NextNames]_vars

\* The Name tag of an instance in the answer to the Kafka query.
NameListedFor(id) ==
  LET listed == asked[KAFKA_SERVICE_TAG][1]
  IN listed[CHOOSE i \in 1..Len(listed) : listed[i].id = id].name

\* C17: in generate_inventory.py the name at index i of
\* kafka_instance_names, when there is one, is the Name tag of the instance
\* whose id is at index i of kafka_instance_ids, and a NodeId tag put on an
\* instance is made of the fourth and fifth part of that instance's own
\* Name tag.
C17_NameBelongsToInstance ==
  pc # "fetch_kafka" =>
    /\ \A i \in 1..Len(kafka_instance_ids) :
         i <= Len(kafka_instance_names) =>
           Some(kafka_instance_names[i]) = NameListedFor(kafka_instance_ids[i])
    /\ \A id \in AllIds :
         tags[id].NodeId # None =>
           /\ NameListedFor(id) # None
           /\ Len(Split(NameListedFor(id)[1])) > 4
           /\ tags[id].NodeId =
                Some(Split(NameListedFor(id)[1])[4] \o <<"-">> \o Split(NameListedFor(id)[1])[5])

\* C18: in a run of ClusterInventoryGenerator, two create_tags calls for
\* different Kafka instances carry different NodeId values.
C18_NodeIdsDistinct ==
  prog = "automate" =>
    \A i, j \in 1..Len(CreateTagsCalls) :
      (/\ i # j
       /\ CreateTagsCalls[i].tags.NodeId # None
       /\ CreateTagsCalls[j].tags.NodeId # None
       /\ CreateTagsCalls[i].resources # CreateTagsCalls[j].resources) =>
        CreateTagsCalls[i].tags.NodeId # CreateTagsCalls[j].tags.NodeId
====
